---- MODULE Spec2Model ----
(***************************************************************************)
(* Register-level model of the MMA8451Q accelerometer driver              *)
(* (Sources/inertial/mma8451q.c) and of the MPU6050 declarations          *)
(* (Project_Headers/imu/mpu6050.h) of frdm-kl25z-acc-uart.                *)
(*                                                                         *)
(* The device is a bank of 8-bit registers.  Every driver function is a   *)
(* short program of bus transactions (read, write, modify); one action    *)
(* step executes one bus transaction, so the states between the           *)
(* transactions of one call are visible.                                   *)
(***************************************************************************)
EXTENDS Integers, Sequences, FiniteSets, TLC

VARIABLES
    regs,           \* device registers: <<bus address, register>> -> byte
    call,           \* the driver call in progress or last completed
    pc,             \* number of bus transactions of `call` executed so far
    log,            \* the bus transactions of `call` executed so far
    pre,            \* regs at entry of `call`
    calls,          \* number of driver calls made with fresh arguments
    repeated,       \* `call` repeats the call completed just before it
    data,           \* the caller's mma8451q_acc_t (status, x, y, z)
    tags,           \* sensor sample number each byte of the last burst came from
    ret,            \* what `call` returned to its caller
    conf,           \* the caller's mma8451q_confreg_t aggregate
    hostBigEndian,  \* byte order of the host
    faulty,         \* the bus may fail transactions (device absent, NACK)
    failed,         \* a bus transaction of `call` failed
    epoch,          \* number of the sample the sensor currently presents
    budget          \* number of calls with fresh arguments the caller makes

vars == <<regs, call, pc, log, pre, calls, repeated, data, tags, ret, conf,
          hostBigEndian, faulty, failed, epoch, budget>>

----------------------------------------------------------------------------
(* Bounds of the model *)

\* driver calls with fresh arguments per behaviour
MaxCalls == 1
\* out-of-range values tried beyond the last enumerator of an argument type
Excess == 1
\* driver calls with fresh arguments per behaviour of a sequence of calls
MaxSequence == 2
\* sensor sample updates per behaviour
MaxUpdates == 2

----------------------------------------------------------------------------
(* C integer arithmetic *)

Byte == 0..255

RECURSIVE BitAnd(_, _)
BitAnd(a, b) ==
    IF a = 0 \/ b = 0 THEN 0
    ELSE (a % 2) * (b % 2) + 2 * BitAnd(a \div 2, b \div 2)

RECURSIVE BitOr(_, _)
BitOr(a, b) ==
    IF a = 0 THEN b
    ELSE IF b = 0 THEN a
    ELSE (IF a % 2 = 1 \/ b % 2 = 1 THEN 1 ELSE 0) + 2 * BitOr(a \div 2, b \div 2)

ShiftLeft(a, n) == a * 2^n

\* (uint8_t) x
ToU8(x) == x % 256

\* (uint8_t) ~x, for an int x >= 0
NotU8(x) == 255 - (x % 256)

\* bit i of x
Bit(x, i) == (x \div 2^i) % 2

----------------------------------------------------------------------------
(* Register map and constants *)

\* mma8451q.c, lines 13-24
CTRL_REG1_DR_MASK == 56
CTRL_REG1_DR_SHIFT == 3
CTRL_REG1_LNOISE_MASK == 4
CTRL_REG1_LNOISE_SHIFT == 2
CTRL_REG2_MODS_MASK == 56
CTRL_REG2_MODS_SHIFT == 3
CTRL_REG3_IPOL_MASK == 2
CTRL_REG3_IPOL_SHIFT == 1
CTRL_REG3_PPOD_MASK == 1
CTRL_REG3_PPOD_SHIFT == 0

\* mma8451q.c, line 33
registerCount == 7

\* mpu6050.h, lines 18-23: 0b1101000 | 0b1
MPU6050_I2CADDR == 105
\* mpu6050.h, line 162
MPU6050_REG_WHO_AM_I == 117
\* mpu6050.h, lines 162 and 300: the identification code, reset value 0x68
MPU6050_WHO_AM_I_RESET == 104

\* inertial/mma8451q.h (MMA8451Q data sheet register map)
MMA8451Q_I2CADDR == 29
MMA8451Q_REG_STATUS == 0
MMA8451Q_REG_OUT_X_MSB == 1
MMA8451Q_REG_OUT_Z_LSB == 6
MMA8451Q_REG_SYSMOD == 11
MMA8451Q_REG_XZY_DATA_CFG == 14
MMA8451Q_REG_PL_CFG == 17
MMA8451Q_REG_CTRL_REG1 == 42
MMA8451Q_REG_CTRL_REG2 == 43
MMA8451Q_REG_CTRL_REG3 == 44
MMA8451Q_REG_CTRL_REG4 == 45
MMA8451Q_REG_CTRL_REG5 == 46
MMA8451Q_INTPIN_INT1 == 1
MMA8451Q_INTPIN_INT2 == 2

\* i2c/i2c.h: the masks that make one half of a modify the identity
I2C_MOD_NO_AND_MASK == 255
I2C_MOD_NO_OR_MASK == 0

SampleRegs == MMA8451Q_REG_STATUS .. MMA8451Q_REG_OUT_Z_LSB

ConfigRegs ==
    { MMA8451Q_REG_SYSMOD, MMA8451Q_REG_XZY_DATA_CFG, MMA8451Q_REG_PL_CFG,
      MMA8451Q_REG_CTRL_REG1, MMA8451Q_REG_CTRL_REG2, MMA8451Q_REG_CTRL_REG3,
      MMA8451Q_REG_CTRL_REG4, MMA8451Q_REG_CTRL_REG5 }

\* registers of the MMA8451Q the device itself owns (access right R)
ReadOnlyRegs == { MMA8451Q_REG_SYSMOD }

Cells ==
    ({MMA8451Q_I2CADDR} \X (SampleRegs \cup ConfigRegs))
        \cup {<<MPU6050_I2CADDR, MPU6050_REG_WHO_AM_I>>}

----------------------------------------------------------------------------
(* The bus transaction provider (i2c/i2c.h) *)

Txn(kind, dev, reg, a, b, n) ==
    [kind |-> kind, dev |-> dev, reg |-> reg, a |-> a, b |-> b, n |-> n]

\* uint8_t I2C_ReadRegister(slaveId, registerAddress)
I2C_ReadRegister(dev, reg) == Txn("read", dev, reg, 0, 0, 1)

\* I2C_ReadRegisters(slaveId, startRegisterAddress, registerCount, buffer);
\* the buffer is given as its byte offset in the caller's structure
I2C_ReadRegisters(dev, reg, count, buffer) == Txn("burst", dev, reg, 0, buffer, count)

\* I2C_WriteRegister(slaveId, registerAddress, value)
I2C_WriteRegister(dev, reg, value) == Txn("write", dev, reg, ToU8(value), 0, 1)

\* I2C_ModifyRegister(slaveId, registerAddress, andMask, orMask)
I2C_ModifyRegister(dev, reg, andMask, orMask) ==
    Txn("modify", dev, reg, ToU8(andMask), ToU8(orMask), 1)

\* register a of the MMA8451Q in the register bank r
Reg(r, a) == r[<<MMA8451Q_I2CADDR, a>>]

\* the register bank after a transaction that the device acknowledged
Device(r, t) ==
    CASE t.kind = "write"  -> [r EXCEPT ![<<t.dev, t.reg>>] = t.a]
      [] t.kind = "modify" ->
            [r EXCEPT ![<<t.dev, t.reg>>] = BitOr(BitAnd(@, t.a), t.b)]
      [] OTHER -> r

----------------------------------------------------------------------------
(* The caller's mma8451q_acc_t and the endianness helpers (endian.h) *)

\* byte offsets of the fields of mma8451q_acc_t: one padding byte, the status
\* byte, then three int16_t axes
acc_t == [status |-> 1, x |-> 2, y |-> 4, z |-> 6]

AccBytes == 0..7

Axes == {"x", "y", "z"}

\* the 16-bit pattern the host sees in the two bytes at offset off
Load16(mem, off, big) ==
    IF big THEN mem[off] * 256 + mem[off + 1] ELSE mem[off + 1] * 256 + mem[off]

Store16(mem, off, big, v) ==
    [mem EXCEPT ![off]     = IF big THEN v \div 256 ELSE v % 256,
                ![off + 1] = IF big THEN v % 256 ELSE v \div 256]

\* endianCorrectionRequired(FROM_BIG_ENDIAN) on a host of the given order
endianCorrectionRequired(big) == ~big

ENDIANSWAP_16(v) == (v % 256) * 256 + (v \div 256)

\* the shift of an unsigned field: zeros fill from the left
ShiftRightInt16_Logical(p, n) == p \div 2^n

\* x >>= n for an int16_t x, on its 16-bit pattern: the target's compiler
\* shifts a negative value arithmetically (the sign bit fills from the left)
ShiftRightInt16(p, n) ==
    (p \div 2^n) + (IF p >= 32768 THEN 65536 - 2^(16 - n) ELSE 0)

\* lines 41-52 of MMA8451Q_ReadAcceleration14bitNoFifo, on the structure
AccFixup(mem, big) ==
    LET swap(m, f) == Store16(m, acc_t[f], big, ENDIANSWAP_16(Load16(m, acc_t[f], big)))
        shift(m, f) == Store16(m, acc_t[f], big, ShiftRightInt16(Load16(m, acc_t[f], big), 2))
        m1 == IF endianCorrectionRequired(big)
              THEN swap(swap(swap(mem, "x"), "y"), "z")
              ELSE mem
    IN  shift(shift(shift(m1, "x"), "y"), "z")

----------------------------------------------------------------------------
(* The driver functions: the bus transactions each one issues, in order,   *)
(* and the kind of value it returns                                        *)

Fn(txns, result) == [txns |-> txns, result |-> result]

\* status and axes fetched by four separate reads
ReadAcceleration_SeparateReads ==
    Fn(<< I2C_ReadRegisters(MMA8451Q_I2CADDR, MMA8451Q_REG_STATUS, 1, acc_t.status),
          I2C_ReadRegisters(MMA8451Q_I2CADDR, MMA8451Q_REG_OUT_X_MSB, 2, acc_t.x),
          I2C_ReadRegisters(MMA8451Q_I2CADDR, MMA8451Q_REG_OUT_X_MSB + 2, 2, acc_t.y),
          I2C_ReadRegisters(MMA8451Q_I2CADDR, MMA8451Q_REG_OUT_X_MSB + 4, 2, acc_t.z) >>,
       "void")

MMA8451Q_ReadAcceleration14bitNoFifo ==
    Fn(<< I2C_ReadRegisters(MMA8451Q_I2CADDR, MMA8451Q_REG_STATUS,
                            registerCount, acc_t.status) >>, "void")

\* the shifted arguments are not cut to their fields
SetDataRate_ValueNotMasked(datarate, lownoise) ==
    LET value == ToU8(BitOr(ShiftLeft(datarate, CTRL_REG1_DR_SHIFT),
                            ShiftLeft(lownoise, CTRL_REG1_LNOISE_SHIFT)))
        mask  == NotU8(BitOr(CTRL_REG1_DR_MASK, CTRL_REG1_LNOISE_MASK))
    IN  Fn(<< I2C_ModifyRegister(MMA8451Q_I2CADDR, MMA8451Q_REG_CTRL_REG1, mask, value) >>,
           "void")

MMA8451Q_SetDataRate(datarate, lownoise) ==
    LET value == ToU8(BitOr(
                    BitAnd(ShiftLeft(datarate, CTRL_REG1_DR_SHIFT), CTRL_REG1_DR_MASK),
                    BitAnd(ShiftLeft(lownoise, CTRL_REG1_LNOISE_SHIFT), CTRL_REG1_LNOISE_MASK)))
        mask  == NotU8(BitOr(CTRL_REG1_DR_MASK, CTRL_REG1_LNOISE_MASK))
    IN  Fn(<< I2C_ModifyRegister(MMA8451Q_I2CADDR, MMA8451Q_REG_CTRL_REG1, mask, value) >>,
           "void")

MMA8451Q_SystemMode ==
    Fn(<< I2C_ReadRegister(MMA8451Q_I2CADDR, MMA8451Q_REG_SYSMOD) >>, "byte")

MMA8451Q_LandscapePortraitConfig ==
    Fn(<< I2C_ReadRegister(MMA8451Q_I2CADDR, MMA8451Q_REG_PL_CFG) >>, "byte")

MMA8451Q_SetOversampling(oversampling) ==
    LET value == ToU8(BitAnd(ShiftLeft(oversampling, CTRL_REG2_MODS_SHIFT),
                             CTRL_REG2_MODS_MASK))
        mask  == NotU8(CTRL_REG2_MODS_MASK)
    IN  Fn(<< I2C_ModifyRegister(MMA8451Q_I2CADDR, MMA8451Q_REG_CTRL_REG2, mask, value) >>,
           "void")

MMA8451Q_SetSensitivity(sensitivity, highpassEnabled) ==
    Fn(<< I2C_WriteRegister(MMA8451Q_I2CADDR, MMA8451Q_REG_XZY_DATA_CFG,
              BitOr(BitAnd(sensitivity, 3), BitAnd(ShiftLeft(highpassEnabled, 4), 16))) >>,
       "void")

MMA8451Q_SetInterruptMode(mode, polarity) ==
    LET value == ToU8(BitOr(
                    BitAnd(ShiftLeft(mode, CTRL_REG3_PPOD_SHIFT), CTRL_REG3_PPOD_MASK),
                    BitAnd(ShiftLeft(polarity, CTRL_REG3_IPOL_SHIFT), CTRL_REG3_IPOL_MASK)))
        mask  == NotU8(BitOr(CTRL_REG3_IPOL_MASK, CTRL_REG3_PPOD_MASK))
    IN  Fn(<< I2C_ModifyRegister(MMA8451Q_I2CADDR, MMA8451Q_REG_CTRL_REG3, mask, value) >>,
           "void")

\* the clear mask of the INT2 branch is not inverted
ConfigureInterrupt_MaskNotInverted(irq, pin) ==
    LET clearMask == IF MMA8451Q_INTPIN_INT2 = pin
                     THEN ToU8(ShiftLeft(1, irq))
                     ELSE I2C_MOD_NO_AND_MASK
        setMask   == IF MMA8451Q_INTPIN_INT2 = pin
                     THEN I2C_MOD_NO_OR_MASK
                     ELSE ToU8(ShiftLeft(1, irq))
    IN  Fn(<< I2C_ModifyRegister(MMA8451Q_I2CADDR, MMA8451Q_REG_CTRL_REG5,
                                 clearMask, setMask),
              I2C_ModifyRegister(MMA8451Q_I2CADDR, MMA8451Q_REG_CTRL_REG4,
                                 I2C_MOD_NO_AND_MASK, ShiftLeft(1, irq)) >>,
           "void")

\* the routing bit is flipped (read, exclusive-or, write) instead of set or cleared
ConfigureInterrupt_TogglesRouting(irq, pin) ==
    LET cur  == Reg(regs, MMA8451Q_REG_CTRL_REG5)
        flip == cur + ToU8(ShiftLeft(1, irq)) - 2 * BitAnd(cur, ToU8(ShiftLeft(1, irq)))
    IN  Fn(<< I2C_WriteRegister(MMA8451Q_I2CADDR, MMA8451Q_REG_CTRL_REG5, flip),
              I2C_ModifyRegister(MMA8451Q_I2CADDR, MMA8451Q_REG_CTRL_REG4,
                                 I2C_MOD_NO_AND_MASK, ShiftLeft(1, irq)) >>,
           "void")

\* the enable register is written with the source's bit alone, not modified
ConfigureInterrupt_EnableOverwrites(irq, pin) ==
    LET clearMask == IF MMA8451Q_INTPIN_INT2 = pin
                     THEN NotU8(ShiftLeft(1, irq))
                     ELSE I2C_MOD_NO_AND_MASK
        setMask   == IF MMA8451Q_INTPIN_INT2 = pin
                     THEN I2C_MOD_NO_OR_MASK
                     ELSE ToU8(ShiftLeft(1, irq))
    IN  Fn(<< I2C_ModifyRegister(MMA8451Q_I2CADDR, MMA8451Q_REG_CTRL_REG5,
                                 clearMask, setMask),
              I2C_WriteRegister(MMA8451Q_I2CADDR, MMA8451Q_REG_CTRL_REG4,
                                ToU8(ShiftLeft(1, irq))) >>,
           "void")

\* the enable register is updated before the routing register
ConfigureInterrupt_EnableFirst(irq, pin) ==
    LET clearMask == IF MMA8451Q_INTPIN_INT2 = pin
                     THEN NotU8(ShiftLeft(1, irq))
                     ELSE I2C_MOD_NO_AND_MASK
        setMask   == IF MMA8451Q_INTPIN_INT2 = pin
                     THEN I2C_MOD_NO_OR_MASK
                     ELSE ToU8(ShiftLeft(1, irq))
    IN  Fn(<< I2C_ModifyRegister(MMA8451Q_I2CADDR, MMA8451Q_REG_CTRL_REG4,
                                 I2C_MOD_NO_AND_MASK, ShiftLeft(1, irq)),
              I2C_ModifyRegister(MMA8451Q_I2CADDR, MMA8451Q_REG_CTRL_REG5,
                                 clearMask, setMask) >>,
           "void")

MMA8451Q_ConfigureInterrupt(irq, pin) ==
    LET clearMask == IF MMA8451Q_INTPIN_INT2 = pin
                     THEN NotU8(ShiftLeft(1, irq))
                     ELSE I2C_MOD_NO_AND_MASK
        setMask   == IF MMA8451Q_INTPIN_INT2 = pin
                     THEN I2C_MOD_NO_OR_MASK
                     ELSE ToU8(ShiftLeft(1, irq))
    IN  Fn(<< I2C_ModifyRegister(MMA8451Q_I2CADDR, MMA8451Q_REG_CTRL_REG5,
                                 clearMask, setMask),
              I2C_ModifyRegister(MMA8451Q_I2CADDR, MMA8451Q_REG_CTRL_REG4,
                                 I2C_MOD_NO_AND_MASK, ShiftLeft(1, irq)) >>,
           "void")

\* the routing register is not written
ClearInterruptConfiguration_EnableOnly ==
    Fn(<< I2C_WriteRegister(MMA8451Q_I2CADDR, MMA8451Q_REG_CTRL_REG4, 0) >>, "void")

MMA8451Q_ClearInterruptConfiguration ==
    Fn(<< I2C_WriteRegister(MMA8451Q_I2CADDR, MMA8451Q_REG_CTRL_REG4, 0),
          I2C_WriteRegister(MMA8451Q_I2CADDR, MMA8451Q_REG_CTRL_REG5, 0) >>, "void")

\* the body is the assertion alone: no bus transaction, the aggregate untouched
MMA8451Q_FetchConfiguration == Fn(<< >>, "void")

\* the body is the assertion alone: no bus transaction
MMA8451Q_StoreConfiguration == Fn(<< >>, "void")

\* declared in mpu6050.h: "Reads the WHO_AM_I register from the MPU6050"
MPU6050_WhoAmI ==
    Fn(<< I2C_ReadRegister(MPU6050_I2CADDR, MPU6050_REG_WHO_AM_I) >>, "byte")

----------------------------------------------------------------------------
(* Calls *)

Call(op, a, b) == [op |-> op, a |-> a, b |-> b]

NoCall == Call("none", 0, 0)

\* the driver function a call record names, applied to its arguments
Program(c) ==
    CASE c.op = "ReadAcceleration14bitNoFifo" -> MMA8451Q_ReadAcceleration14bitNoFifo
      [] c.op = "SetDataRate"                 -> MMA8451Q_SetDataRate(c.a, c.b)
      [] c.op = "SystemMode"                  -> MMA8451Q_SystemMode
      [] c.op = "LandscapePortraitConfig"     -> MMA8451Q_LandscapePortraitConfig
      [] c.op = "SetOversampling"             -> MMA8451Q_SetOversampling(c.a)
      [] c.op = "SetSensitivity"              -> MMA8451Q_SetSensitivity(c.a, c.b)
      [] c.op = "SetInterruptMode"            -> MMA8451Q_SetInterruptMode(c.a, c.b)
      [] c.op = "ConfigureInterrupt"          -> MMA8451Q_ConfigureInterrupt(c.a, c.b)
      [] c.op = "ClearInterruptConfiguration" -> MMA8451Q_ClearInterruptConfiguration
      [] c.op = "FetchConfiguration"          -> MMA8451Q_FetchConfiguration
      [] c.op = "StoreConfiguration"          -> MMA8451Q_StoreConfiguration
      [] c.op = "WhoAmI"                      -> MPU6050_WhoAmI
      [] OTHER                                -> Fn(<< >>, "void")

\* no call is in progress
Idle == pc = Len(Program(call).txns)

\* `call` has been made and has returned
Returned == call.op # "none" /\ Idle

Pending == [kind |-> "pending", value |-> 0]
Void == [kind |-> "void", value |-> 0]
ByteResult(v) == [kind |-> "byte", value |-> v]

\* what the statements after the last bus transaction do to the structure
Epilogue(c, mem) ==
    IF c.op = "ReadAcceleration14bitNoFifo" THEN AccFixup(mem, hostBigEndian) ELSE mem

\* bus transaction k of call c.  A transaction the device does not
\* acknowledge changes no register and delivers an arbitrary byte.
Transact(c, k) ==
    LET t    == Program(c).txns[k]
        last == k = Len(Program(c).txns)
    IN  \E ok \in (IF faulty THEN BOOLEAN ELSE {TRUE}) :
        \E g \in (IF ok \/ t.kind \in {"write", "modify"} THEN {0} ELSE Byte) :
        LET got  == [i \in 0..(t.n - 1) |->
                        IF ok THEN regs[<<t.dev, t.reg + i>>] ELSE g]
            into(j) == j - t.b \in DOMAIN got
            mem  == IF t.kind = "burst"
                    THEN [j \in AccBytes |-> IF into(j) THEN got[j - t.b] ELSE data[j]]
                    ELSE data
        IN  /\ regs' = IF ok THEN Device(regs, t) ELSE regs
            /\ data' = IF last THEN Epilogue(c, mem) ELSE mem
            /\ tags' = IF t.kind = "burst"
                       THEN [j \in AccBytes |-> IF into(j) THEN epoch ELSE tags[j]]
                       ELSE tags
            /\ ret' = IF ~last THEN Pending
                      ELSE IF Program(c).result = "byte" THEN ByteResult(got[0])
                      ELSE Void
            /\ failed' = ((k > 1 /\ failed) \/ ~ok)
            /\ log' = Append(IF k = 1 THEN << >> ELSE log, t)
            /\ pc' = k

\* entry of call c, up to and including its first bus transaction
Enter(c) ==
    /\ Idle
    /\ call' = c
    /\ pre' = regs
    /\ IF Len(Program(c).txns) = 0
       THEN /\ pc' = 0
            /\ log' = << >>
            /\ ret' = Void
            /\ failed' = FALSE
            /\ data' = Epilogue(c, data)
            /\ UNCHANGED <<regs, tags>>
       ELSE Transact(c, 1)
    /\ UNCHANGED <<conf, hostBigEndian, faulty, epoch, budget>>

\* the caller makes a call with fresh arguments
Fresh ==
    /\ calls < budget
    /\ calls' = calls + 1
    /\ repeated' = FALSE

----------------------------------------------------------------------------
(* Argument domains: the enumerators of each type and Excess values beyond *)

DataRates     == 0..(7 + Excess)
LowNoiseModes == 0..(1 + Excess)
Oversamplings == 0..(3 + Excess)
Sensitivities == 0..(2 + Excess)
HighPassModes == 0..(1 + Excess)
IntModes      == 0..(1 + Excess)
IntPolarities == 0..(1 + Excess)
Interrupts    == 0..7
IntPins       == MMA8451Q_INTPIN_INT1..(MMA8451Q_INTPIN_INT2 + Excess)

----------------------------------------------------------------------------
(* Actions *)

ReadAcceleration14bitNoFifo == Fresh /\ Enter(Call("ReadAcceleration14bitNoFifo", 0, 0))

SetDataRate ==
    \E d \in DataRates, l \in LowNoiseModes : Fresh /\ Enter(Call("SetDataRate", d, l))

SystemMode == Fresh /\ Enter(Call("SystemMode", 0, 0))

LandscapePortraitConfig == Fresh /\ Enter(Call("LandscapePortraitConfig", 0, 0))

SetOversampling == \E o \in Oversamplings : Fresh /\ Enter(Call("SetOversampling", o, 0))

SetSensitivity ==
    \E s \in Sensitivities, h \in HighPassModes : Fresh /\ Enter(Call("SetSensitivity", s, h))

SetInterruptMode ==
    \E m \in IntModes, p \in IntPolarities : Fresh /\ Enter(Call("SetInterruptMode", m, p))

ConfigureInterrupt ==
    \E i \in Interrupts, p \in IntPins : Fresh /\ Enter(Call("ConfigureInterrupt", i, p))

ClearInterruptConfiguration == Fresh /\ Enter(Call("ClearInterruptConfiguration", 0, 0))

FetchConfiguration == Fresh /\ Enter(Call("FetchConfiguration", 0, 0))

StoreConfiguration == Fresh /\ Enter(Call("StoreConfiguration", 0, 0))

WhoAmI == Fresh /\ Enter(Call("WhoAmI", 0, 0))

\* the same function called again with the same arguments, right after it returned
Repeat ==
    /\ Returned
    /\ repeated' = TRUE
    /\ calls' = calls
    /\ Enter(call)

\* the next bus transaction of the call in progress
Continue ==
    /\ ~Idle
    /\ Transact(call, pc + 1)
    /\ UNCHANGED <<call, pre, calls, repeated, conf, hostBigEndian, faulty, epoch,
                   budget>>

\* the raw sample (status byte, three big-endian axis words) as register contents
SampleBytes(s) ==
    [r \in SampleRegs |->
        CASE r = MMA8451Q_REG_STATUS -> s.status
          [] r = 1 -> s.x \div 256 [] r = 2 -> s.x % 256
          [] r = 3 -> s.y \div 256 [] r = 4 -> s.y % 256
          [] r = 5 -> s.z \div 256 [] OTHER -> s.z % 256]

Sample(st, x, y, z) == [status |-> st, x |-> x, y |-> y, z |-> z]

\* the sample of the specification's endianness example
ExampleSample == Sample(15, 4660, 65520, 4)

\* the samples the sensor produces while a read may be in progress
Samples == { ExampleSample, Sample(255, 4, 4660, 65520), Sample(0, 65535, 32768, 1) }

\* the sensor replaces all its sample registers at once, between bus transactions
SensorUpdate ==
    /\ epoch < MaxUpdates
    /\ epoch' = epoch + 1
    /\ \E s \in Samples :
         regs' = [c \in Cells |->
                    IF c[1] = MMA8451Q_I2CADDR /\ c[2] \in SampleRegs
                    THEN SampleBytes(s)[c[2]] ELSE regs[c]]
    /\ UNCHANGED <<call, pc, log, pre, calls, repeated, data, tags, ret, conf,
                   hostBigEndian, faulty, failed, budget>>

----------------------------------------------------------------------------
(* Initial states *)

\* a device whose configuration registers hold the pattern v (w in CTRL_REG5)
\* and whose sample registers hold the sample s, before the first of n calls
StartWith(v, w, s, big, flt, cf, n) ==
    /\ regs = [c \in Cells |->
                 IF c[1] = MPU6050_I2CADDR THEN MPU6050_WHO_AM_I_RESET
                 ELSE IF c[2] \in SampleRegs THEN SampleBytes(s)[c[2]]
                 ELSE IF c[2] = MMA8451Q_REG_CTRL_REG5 THEN w
                 ELSE v]
    /\ call = NoCall
    /\ pc = 0
    /\ log = << >>
    /\ pre = regs
    /\ calls = 0
    /\ repeated = FALSE
    /\ data = [j \in AccBytes |-> 0]
    /\ tags = [j \in AccBytes |-> 0]
    /\ ret = Void
    /\ conf = [r \in ConfigRegs |-> cf]
    /\ hostBigEndian = big
    /\ faulty = flt
    /\ failed = FALSE
    /\ epoch = 0
    /\ budget = n

\* the same, before a behaviour of MaxCalls calls
Start(v, w, s, big, flt, cf) == StartWith(v, w, s, big, flt, cf, MaxCalls)

\* the bit-field operations on a device holding an arbitrary pattern
Init ==
    \E v \in Byte : \E w \in {v, NotU8(v)} :
        Start(v, w, ExampleSample, FALSE, FALSE, 0)

Next ==
    \/ SetDataRate
    \/ SetOversampling
    \/ SetSensitivity
    \/ SetInterruptMode
    \/ ConfigureInterrupt
    \/ ClearInterruptConfiguration
    \/ Repeat
    \/ Continue

Spec == Init /\ [][Next]_vars

\* a sample carrying the word w on the x axis, its complement on the y axis
\* and w with the sign bit flipped on the z axis
Sweep(w) == Sample(15, w, 65535 - w, (w + 32768) % 65536)

\* the measurement decoder on either host, for every 16-bit word on every axis
InitDecode ==
    \E big \in BOOLEAN :
        \E s \in {ExampleSample} \cup {Sweep(w) : w \in 0..65535} :
            Start(0, 0, s, big, FALSE, 0)

NextDecode == ReadAcceleration14bitNoFifo

SpecDecode == InitDecode /\ [][NextDecode]_vars

\* every function of the driver
Driver ==
    \/ ReadAcceleration14bitNoFifo
    \/ SetDataRate
    \/ SystemMode
    \/ LandscapePortraitConfig
    \/ SetOversampling
    \/ SetSensitivity
    \/ SetInterruptMode
    \/ ConfigureInterrupt
    \/ ClearInterruptConfiguration
    \/ FetchConfiguration
    \/ StoreConfiguration
    \/ WhoAmI
    \/ Repeat
    \/ Continue

\* the whole driver on a device in its reset state whose sensor produces
\* samples; the caller's aggregate holds 0xA5 in every field
InitDriver == Start(0, 0, ExampleSample, FALSE, FALSE, 165)

NextDriver == Driver \/ SensorUpdate

SpecDriver == InitDriver /\ [][NextDriver]_vars

\* the whole driver on a bus that may fail any transaction
InitBus == Start(0, 0, ExampleSample, FALSE, TRUE, 165)

NextBus == Driver

SpecBus == InitBus /\ [][NextBus]_vars

\* sequences of calls of the whole driver, on a device in its reset state and
\* on one whose configuration registers hold the pattern 0xA5
InitSequence ==
    \E v \in {0, 165} : StartWith(v, v, ExampleSample, FALSE, FALSE, 165, MaxSequence)

NextSequence == Driver

SpecSequence == InitSequence /\ [][NextSequence]_vars

----------------------------------------------------------------------------
(* Properties of the bit-field operations (checked under Spec) *)

\* every cell of the register bank other than register a of the MMA8451Q is as
\* it was at entry of the call
OthersKept(a) ==
    \A c \in Cells : c # <<MMA8451Q_I2CADDR, a>> => regs[c] = pre[c]

\* log is exactly the transactions of the given kind on the given registers
LogIs(kind, rs) ==
    /\ Len(log) = Len(rs)
    /\ \A k \in 1..Len(rs) :
          /\ log[k].kind = kind
          /\ log[k].dev = MMA8451Q_I2CADDR
          /\ log[k].reg = rs[k]

\* C1, as the specification states it: after ConfigureInterrupt(irq, pin) has
\* returned, bit irq of CTRL_REG5 is clear for INT1 and set for INT2, and every
\* other bit of CTRL_REG5 has its value from before the call.
C1_RoutingAsStated ==
    (Returned /\ call.op = "ConfigureInterrupt") =>
        /\ call.b = MMA8451Q_INTPIN_INT1 =>
              Bit(Reg(regs, MMA8451Q_REG_CTRL_REG5), call.a) = 0
        /\ call.b = MMA8451Q_INTPIN_INT2 =>
              Bit(Reg(regs, MMA8451Q_REG_CTRL_REG5), call.a) = 1
        /\ \A i \in 0..7 : i # call.a =>
              Bit(Reg(regs, MMA8451Q_REG_CTRL_REG5), i)
                  = Bit(Reg(pre, MMA8451Q_REG_CTRL_REG5), i)

\* C1, amended: after ConfigureInterrupt(irq, pin) has returned, bit irq of
\* CTRL_REG5 is set for INT1 and clear for INT2, and every other bit of
\* CTRL_REG5 has its value from before the call.
C1_RoutingAsCoded ==
    (Returned /\ call.op = "ConfigureInterrupt") =>
        /\ call.b = MMA8451Q_INTPIN_INT1 =>
              Bit(Reg(regs, MMA8451Q_REG_CTRL_REG5), call.a) = 1
        /\ call.b = MMA8451Q_INTPIN_INT2 =>
              Bit(Reg(regs, MMA8451Q_REG_CTRL_REG5), call.a) = 0
        /\ \A i \in 0..7 : i # call.a =>
              Bit(Reg(regs, MMA8451Q_REG_CTRL_REG5), i)
                  = Bit(Reg(pre, MMA8451Q_REG_CTRL_REG5), i)

\* a source routed to INT2 on a register that had its bit and others set
C1_Witness ==
    /\ Returned
    /\ ~repeated
    /\ call = Call("ConfigureInterrupt", 2, MMA8451Q_INTPIN_INT2)
    /\ Reg(pre, MMA8451Q_REG_CTRL_REG5) = 165
    /\ Reg(regs, MMA8451Q_REG_CTRL_REG5) = 161

\* C2: after SetSensitivity has returned, the bits of XYZ_DATA_CFG outside the
\* mask 0x13 (bits 2, 3, 5, 6, 7) have their values from before the call.
C2_SensitivityKeepsOtherBits ==
    (Returned /\ call.op = "SetSensitivity") =>
        \A i \in {2, 3, 5, 6, 7} :
            Bit(Reg(regs, MMA8451Q_REG_XZY_DATA_CFG), i)
                = Bit(Reg(pre, MMA8451Q_REG_XZY_DATA_CFG), i)

\* C3: SetDataRate leaves CTRL_REG1 with bits 3-5 equal to the low three bits
\* of datarate, bit 2 equal to the low bit of lownoise and every other bit as
\* before; SetOversampling leaves CTRL_REG2 with bits 3-5 equal to the low
\* three bits of oversampling and every other bit as before; SetInterruptMode
\* leaves CTRL_REG3 with bit 0 equal to the low bit of mode, bit 1 equal to
\* the low bit of polarity and every other bit as before.  Each issues one
\* modify transaction on its register and changes no other register.
C3_MaskedUpdates ==
    /\ (Returned /\ call.op = "SetDataRate") =>
          /\ \A i \in 0..7 :
                Bit(Reg(regs, MMA8451Q_REG_CTRL_REG1), i) =
                    IF i \in 3..5 THEN Bit(call.a, i - 3)
                    ELSE IF i = 2 THEN Bit(call.b, 0)
                    ELSE Bit(Reg(pre, MMA8451Q_REG_CTRL_REG1), i)
          /\ OthersKept(MMA8451Q_REG_CTRL_REG1)
          /\ LogIs("modify", <<MMA8451Q_REG_CTRL_REG1>>)
    /\ (Returned /\ call.op = "SetOversampling") =>
          /\ \A i \in 0..7 :
                Bit(Reg(regs, MMA8451Q_REG_CTRL_REG2), i) =
                    IF i \in 3..5 THEN Bit(call.a, i - 3)
                    ELSE Bit(Reg(pre, MMA8451Q_REG_CTRL_REG2), i)
          /\ OthersKept(MMA8451Q_REG_CTRL_REG2)
          /\ LogIs("modify", <<MMA8451Q_REG_CTRL_REG2>>)
    /\ (Returned /\ call.op = "SetInterruptMode") =>
          /\ \A i \in 0..7 :
                Bit(Reg(regs, MMA8451Q_REG_CTRL_REG3), i) =
                    IF i = 0 THEN Bit(call.a, 0)
                    ELSE IF i = 1 THEN Bit(call.b, 0)
                    ELSE Bit(Reg(pre, MMA8451Q_REG_CTRL_REG3), i)
          /\ OthersKept(MMA8451Q_REG_CTRL_REG3)
          /\ LogIs("modify", <<MMA8451Q_REG_CTRL_REG3>>)

\* SetDataRate with an out-of-range rate on a register with every bit set
C3_Witness ==
    /\ Returned
    /\ ~repeated
    /\ call = Call("SetDataRate", 8, 1)
    /\ Reg(pre, MMA8451Q_REG_CTRL_REG1) = 255
    /\ Reg(regs, MMA8451Q_REG_CTRL_REG1) = 199

\* C6: after ClearInterruptConfiguration has returned, CTRL_REG4 and CTRL_REG5
\* are 0, the call issued exactly two write transactions (CTRL_REG4, then
\* CTRL_REG5), each with the value 0, and every other register is as before.
C6_ClearWritesZero ==
    (Returned /\ call.op = "ClearInterruptConfiguration") =>
        /\ Reg(regs, MMA8451Q_REG_CTRL_REG4) = 0
        /\ Reg(regs, MMA8451Q_REG_CTRL_REG5) = 0
        /\ LogIs("write", <<MMA8451Q_REG_CTRL_REG4, MMA8451Q_REG_CTRL_REG5>>)
        /\ \A k \in 1..Len(log) : log[k].a = 0
        /\ \A c \in Cells :
              c[2] \notin {MMA8451Q_REG_CTRL_REG4, MMA8451Q_REG_CTRL_REG5}
                  => regs[c] = pre[c]

\* the interrupt configuration cleared on a device with different, non-zero
\* enable and routing registers
C6_Witness ==
    /\ Returned
    /\ ~repeated
    /\ call.op = "ClearInterruptConfiguration"
    /\ Reg(pre, MMA8451Q_REG_CTRL_REG4) = 165
    /\ Reg(pre, MMA8451Q_REG_CTRL_REG5) = 90
    /\ Reg(regs, MMA8451Q_REG_CTRL_REG5) = 0

BitFieldOps ==
    {"SetDataRate", "SetOversampling", "SetSensitivity", "SetInterruptMode",
     "ConfigureInterrupt"}

\* C9: when a bit-field operation has been called a second time, right after
\* it returned and with the same arguments, and has returned again, every
\* device register has the value it had after the first call.
C9_Idempotent ==
    (Returned /\ repeated /\ call.op \in BitFieldOps) => regs = pre

\* the second of two identical ConfigureInterrupt calls has returned; the first
\* one had set the routing bit
C9_Witness ==
    /\ Returned
    /\ repeated
    /\ call = Call("ConfigureInterrupt", 1, MMA8451Q_INTPIN_INT1)
    /\ Reg(regs, MMA8451Q_REG_CTRL_REG5) = 2
    /\ Reg(regs, MMA8451Q_REG_CTRL_REG4) = 2

\* the value the code gives routing bit irq of CTRL_REG5 for a pin
RoutingBit(pin) == IF pin = MMA8451Q_INTPIN_INT2 THEN 0 ELSE 1

\* C10: throughout a ConfigureInterrupt(irq, pin) call the transactions issued
\* so far are a prefix of <<modify CTRL_REG5, modify CTRL_REG4>>; while only
\* the first is done CTRL_REG4 is untouched and routing bit irq already has
\* its final value; whenever this call has changed CTRL_REG4 the routing bit
\* has its final value; and when the call has returned both transactions are
\* done and enable bit irq of CTRL_REG4 is 1, for either pin.
C10_RoutingBeforeEnable ==
    (call.op = "ConfigureInterrupt" /\ pc >= 1) =>
        /\ LogIs("modify", SubSeq(<<MMA8451Q_REG_CTRL_REG5, MMA8451Q_REG_CTRL_REG4>>, 1, pc))
        /\ pc = 1 =>
              /\ ~Returned
              /\ Reg(regs, MMA8451Q_REG_CTRL_REG4) = Reg(pre, MMA8451Q_REG_CTRL_REG4)
              /\ Bit(Reg(regs, MMA8451Q_REG_CTRL_REG5), call.a) = RoutingBit(call.b)
        /\ Reg(regs, MMA8451Q_REG_CTRL_REG4) # Reg(pre, MMA8451Q_REG_CTRL_REG4) =>
              Bit(Reg(regs, MMA8451Q_REG_CTRL_REG5), call.a) = RoutingBit(call.b)
        /\ Returned =>
              /\ pc = 2
              /\ Bit(Reg(regs, MMA8451Q_REG_CTRL_REG4), call.a) = 1

\* between the two transactions: the routing bit has just been set, the enable
\* bit is still clear
C10_Witness ==
    /\ call = Call("ConfigureInterrupt", 4, MMA8451Q_INTPIN_INT1)
    /\ pc = 1
    /\ Bit(Reg(pre, MMA8451Q_REG_CTRL_REG5), 4) = 0
    /\ Bit(Reg(regs, MMA8451Q_REG_CTRL_REG5), 4) = 1
    /\ Bit(Reg(regs, MMA8451Q_REG_CTRL_REG4), 4) = 0

----------------------------------------------------------------------------
(* Properties of the measurement decoder (checked under SpecDecode) *)

\* the value of a 16-bit pattern read as a signed 16-bit integer
ToInt16(p) == IF p >= 32768 THEN p - 65536 ELSE p

\* the 16-bit word the device holds for an axis, most significant byte first
Wire(r, f) ==
    LET msb == MMA8451Q_REG_OUT_X_MSB + (acc_t[f] - acc_t.x)
    IN  Reg(r, msb) * 256 + Reg(r, msb + 1)

\* the axis field of the caller's structure, as the host reads it
Axis(f) == Load16(data, acc_t[f], hostBigEndian)

\* C4: after ReadAcceleration14bitNoFifo has returned, on a big-endian and on
\* a little-endian host, every axis of the structure, read as a signed 16-bit
\* integer, is the device's big-endian word for that axis, read as a signed
\* 16-bit integer, divided by 4 and rounded down; and the sample
\* {0x1234, 0xFFF0, 0x0004} on a little-endian host gives
\* {0x048D, 0xFFFC, 0x0001}.
C4_DecodesSigned ==
    (Returned /\ call.op = "ReadAcceleration14bitNoFifo") =>
        /\ \A f \in Axes : ToInt16(Axis(f)) = ToInt16(Wire(regs, f)) \div 4
        /\ data[acc_t.status] = Reg(regs, MMA8451Q_REG_STATUS)
        /\ ( /\ ~hostBigEndian
             /\ Wire(regs, "x") = 4660
             /\ Wire(regs, "y") = 65520
             /\ Wire(regs, "z") = 4 ) =>
                 /\ Axis("x") = 1165
                 /\ Axis("y") = 65532
                 /\ Axis("z") = 1

\* the example sample decoded on a little-endian host
C4_Witness ==
    /\ Returned
    /\ call.op = "ReadAcceleration14bitNoFifo"
    /\ ~hostBigEndian
    /\ Wire(regs, "x") = 4660 /\ Wire(regs, "y") = 65520 /\ Wire(regs, "z") = 4
    /\ Axis("y") = 65532

----------------------------------------------------------------------------
(* Properties of the whole driver (checked under SpecDriver and SpecBus) *)

\* the bytes of the structure a read of the sample registers fills
Filled == acc_t.status .. (acc_t.status + 6)

\* C5: as soon as ReadAcceleration14bitNoFifo has issued a bus transaction, its
\* log is exactly one burst read of 7 registers starting at STATUS into the
\* structure's status field, and it stays that until the call has returned;
\* when the call has returned without a bus failure, the status byte and the
\* six axis bytes were all taken from the same sensor sample, however the
\* sensor's updates fell.
C5_OneBurstNoTornSample ==
    (call.op = "ReadAcceleration14bitNoFifo" /\ pc >= 1) =>
        /\ Returned
        /\ Len(log) = 1
        /\ log[1].kind = "burst"
        /\ log[1].dev = MMA8451Q_I2CADDR
        /\ log[1].reg = MMA8451Q_REG_STATUS
        /\ log[1].n = 7
        /\ log[1].b = acc_t.status
        /\ ~failed => \A j, k \in Filled : tags[j] = tags[k]

\* a read made between two sensor updates: the structure holds the first
\* update's sample, the device already the second's
C5_Witness ==
    /\ Returned
    /\ call.op = "ReadAcceleration14bitNoFifo"
    /\ ~failed
    /\ \A j \in Filled : tags[j] = 1
    /\ epoch = 2
    /\ Reg(regs, MMA8451Q_REG_STATUS) # data[acc_t.status]

\* C7: after FetchConfiguration has returned, every field of the aggregate
\* holds the content its register had when the call was made; after
\* StoreConfiguration has returned, every writable register holds the value of
\* its field and no write transaction went to a read-only register.
C7_ConfigurationTransferred ==
    /\ (Returned /\ call.op = "FetchConfiguration") =>
          \A r \in ConfigRegs : conf[r] = Reg(pre, r)
    /\ (Returned /\ call.op = "StoreConfiguration") =>
          /\ \A r \in ConfigRegs \ ReadOnlyRegs : Reg(regs, r) = conf[r]
          /\ \A k \in 1..Len(log) : log[k].reg \notin ReadOnlyRegs

\* C8: when a driver call has returned and one of its bus transactions had
\* failed, what the call returned is an error, not a byte and not nothing.
C8_BusFailureSurfaced ==
    (Returned /\ failed) => ret.kind = "error"

----------------------------------------------------------------------------
(* Properties of sequences of calls (checked under SpecSequence) *)

\* the interrupt sources enabled in a register bank
Enabled(r) == { i \in 0..7 : Bit(Reg(r, MMA8451Q_REG_CTRL_REG4), i) = 1 }

====
